---- MODULE Spec2Model ----
(***************************************************************************)
(* x86_string_ops: bulk copy / fill / compare / scan over slices of        *)
(* register-sized elements, implemented with `rep movs/stos/cmps/scas`     *)
(* on x86_64 and with portable loops elsewhere.                            *)
(*                                                                         *)
(* Memory is a flat array of bytes; address p is mem[p + 1].  An element   *)
(* of type T is size_of(T) consecutive bytes, least significant first      *)
(* (x86_64 is little-endian).  A value of usize is represented by the      *)
(* signed integer with the same two's-complement bits, so usize::MAX is    *)
(* -1.                                                                     *)
(***************************************************************************)
EXTENDS Integers, Sequences, FiniteSets

VARIABLES T, target, mem, self, other, op, ret, lastWrite

vars == <<T, target, mem, self, other, op, ret, lastWrite>>

\* Longest slice, in elements.
MaxLen == 2

(***************************************************************************)
(* types.rs: the sealed set of register types                              *)
(***************************************************************************)
RegisterType ==
    {"i8", "u8", "i16", "u16", "i32", "u32", "i64", "u64", "i128", "u128", "f32", "f64"}

size_of(t) ==
    CASE t \in {"i8", "u8"} -> 1
      [] t \in {"i16", "u16"} -> 2
      [] t \in {"i32", "u32", "f32"} -> 4
      [] t \in {"i64", "u64", "f64"} -> 8
      [] t \in {"i128", "u128"} -> 16
      [] t = "[u8; 3]" -> 3

IsFloat(t) == t \in {"f32", "f64"}

\* Types that are Copy: the register types and, of the others, [u8; 3].
CopyType == RegisterType \cup {"[u8; 3]"}

\* The bound on T in the signature of each primitive and of SliceExt.
TypeBound(f) ==
    CASE f \in {"rep_movs", "rep_stos"} -> CopyType
      [] f \in {"rep_cmps", "rep_scas", "SliceExt"} -> RegisterType

\* Bit patterns the elements are drawn from, as little-endian bytes.
Zero(w) == [i \in 1..w |-> 0]
One(w) == [i \in 1..w |-> IF i = 1 THEN 1 ELSE 0]
Top(w) == [i \in 1..w |-> IF i = w THEN 128 ELSE 0]
QuietNaN(w) ==
    [i \in 1..w |-> IF i = w THEN 127
                    ELSE IF i = w - 1 THEN (IF w = 4 THEN 192 ELSE 248)
                    ELSE 0]

\* Integers: 0, 1 and MIN (only the top bit set).  Floats: +0.0, -0.0, NaN.
Samples(t) ==
    IF IsFloat(t)
    THEN {Zero(size_of(t)), Top(size_of(t)), QuietNaN(size_of(t))}
    ELSE {Zero(size_of(t)), One(size_of(t)), Top(size_of(t))}

\* f32::to_bits / f64::to_bits: the unsigned integer with the same bits,
\* written as its base-256 digits, most significant first.
RECURSIVE to_bits(_)
to_bits(x) == IF x = <<>> THEN <<>> ELSE to_bits(Tail(x)) \o <<Head(x)>>

\* IEEE 754 classification of a little-endian f32 / f64.
IsNaN(x) ==
    LET w == Len(x)
        mant == [i \in 1..w |-> IF i = w THEN 0
                               ELSE IF i = w - 1
                                    THEN (IF w = 4 THEN x[i] % 128 ELSE x[i] % 16)
                                    ELSE x[i]]
        expo == IF w = 4
                THEN (x[w] % 128) * 2 + (x[w - 1] \div 128)
                ELSE (x[w] % 128) * 16 + (x[w - 1] \div 16)
    IN  /\ expo = (IF w = 4 THEN 255 ELSE 2047)
        /\ mant # Zero(w)

IsFloatZero(x) == [x EXCEPT ![Len(x)] = @ % 128] = Zero(Len(x))

\* PartialEq (==) of the element type: value equality.
native_eq(t, x, y) ==
    IF IsFloat(t)
    THEN /\ ~IsNaN(x)
         /\ ~IsNaN(y)
         /\ (x = y \/ (IsFloatZero(x) /\ IsFloatZero(y)))
    ELSE x = y

\* A slip: the float impls written like the integer ones (self == other).
bitwise_eq_native(t, x, y) == native_eq(t, x, y)

\* RegisterType::bitwise_eq
bitwise_eq(t, x, y) ==
    IF IsFloat(t)
    THEN to_bits(x) = to_bits(y)
    ELSE native_eq(t, x, y)

(***************************************************************************)
(* Memory                                                                  *)
(***************************************************************************)
Load(m, p, w) == SubSeq(m, p + 1, p + w)

Store(m, p, bytes) ==
    SubSeq(m, 1, p) \o bytes \o SubSeq(m, p + Len(bytes) + 1, Len(m))

\* Element i of the region of elements of width w that starts at p.
Elem(m, p, w, i) == Load(m, p + i * w, w)

\* Bytes no slice owns: one element's worth before, between and after.
Guard(w) == [i \in 1..w |-> 170]

RECURSIVE Flatten(_)
Flatten(elems) ==
    IF elems = <<>> THEN <<>> ELSE Head(elems) \o Flatten(Tail(elems))

(***************************************************************************)
(* Results                                                                 *)
(***************************************************************************)
Unit == [tag |-> "unit"]
None == [tag |-> "None"]
Some(i) == [tag |-> "Some", idx |-> i]
Panic(msg) == [tag |-> "panic", msg |-> msg]

(***************************************************************************)
(* assembly.rs: the instructions                                           *)
(***************************************************************************)
\* rep movs with a source cursor that never advances.
RECURSIVE asm_rep_movs_stuck(_, _, _, _, _)
asm_rep_movs_stuck(w, rcx, rsi, rdi, m) ==
    IF rcx = 0
    THEN [rcx |-> rcx, rsi |-> rsi, rdi |-> rdi, mem |-> m]
    ELSE asm_rep_movs_stuck(w, rcx - 1, rsi, rdi + w, Store(m, rdi, Load(m, rsi, w)))

\* `rep movs{b,w,d,q}`: while rcx # 0, move w bytes from [rsi] to [rdi].
RECURSIVE asm_rep_movs(_, _, _, _, _)
asm_rep_movs(w, rcx, rsi, rdi, m) ==
    IF rcx = 0
    THEN [rcx |-> rcx, rsi |-> rsi, rdi |-> rdi, mem |-> m]
    ELSE asm_rep_movs(w, rcx - 1, rsi + w, rdi + w, Store(m, rdi, Load(m, rsi, w)))

\* rep stos that stores once more than rcx says.
RECURSIVE asm_rep_stos_extra(_, _, _, _, _)
asm_rep_stos_extra(w, rcx, rax, rdi, m) ==
    IF rcx = 0
    THEN [rcx |-> rcx, rdi |-> rdi + w, mem |-> Store(m, rdi, SubSeq(rax, 1, w))]
    ELSE asm_rep_stos_extra(w, rcx - 1, rax, rdi + w, Store(m, rdi, SubSeq(rax, 1, w)))

\* `rep stos{b,w,d,q}`: while rcx # 0, store the low w bytes of rax at [rdi].
RECURSIVE asm_rep_stos(_, _, _, _, _)
asm_rep_stos(w, rcx, rax, rdi, m) ==
    IF rcx = 0
    THEN [rcx |-> rcx, rdi |-> rdi, mem |-> m]
    ELSE asm_rep_stos(w, rcx - 1, rax, rdi + w, Store(m, rdi, SubSeq(rax, 1, w)))

\* The flag-initialising test left out: ZF is whatever it was.
asm_test_missing(zf, r) == zf

\* `test r, r`: ZF := (r AND r) = 0, whatever ZF was.
asm_test(zf, r) == r = 0

\* `repe cmps{b,w,d,q}`: while rcx # 0, compare w bytes at [rsi] and [rdi]
\* into ZF, advance both, decrement rcx, stop when ZF = 0.  With rcx = 0 no
\* comparison is made and ZF keeps its value.
RECURSIVE asm_repe_cmps(_, _, _, _, _, _)
asm_repe_cmps(w, zf, rcx, rsi, rdi, m) ==
    IF rcx = 0
    THEN [zf |-> zf, rcx |-> rcx, rsi |-> rsi, rdi |-> rdi]
    ELSE IF Load(m, rsi, w) = Load(m, rdi, w)
         THEN asm_repe_cmps(w, TRUE, rcx - 1, rsi + w, rdi + w, m)
         ELSE [zf |-> FALSE, rcx |-> rcx - 1, rsi |-> rsi + w, rdi |-> rdi + w]

\* `repne scas{b,w,d,q}`: while rcx # 0, compare the low w bytes of rax with
\* [rdi] into ZF, advance rdi, decrement rcx, stop when ZF = 1.
RECURSIVE asm_repne_scas(_, _, _, _, _, _)
asm_repne_scas(w, zf, rcx, rax, rdi, m) ==
    IF rcx = 0
    THEN [zf |-> zf, rcx |-> rcx, rdi |-> rdi]
    ELSE IF SubSeq(rax, 1, w) = Load(m, rdi, w)
         THEN [zf |-> TRUE, rcx |-> rcx - 1, rdi |-> rdi + w]
         ELSE asm_repne_scas(w, FALSE, rcx - 1, rax, rdi + w, m)

\* `sete r8`: r8 := ZF.
asm_sete(zf) == IF zf THEN 1 ELSE 0

\* core::mem::transmute_copy::<T, U>(&src): the first size_of::<U>() bytes
\* of src.
transmute_copy(src, n) == SubSeq(src, 1, n)

\* p.offset_from(origin) for *const T: the distance in elements.  A distance
\* that is no multiple of the size is undefined; the division is compiled
\* to an arithmetic shift, which rounds down.
offset_from(p, origin, size) == (p - origin) \div size

\* `x as usize - 1`: panics when overflow checks are on and wraps to
\* usize::MAX when they are off.
sub_one(x) ==
    IF x = 0
    THEN {Panic("attempt to subtract with overflow"), Some(-1)}
    ELSE {Some(x - 1)}

\* Iterator::position over the per-element outcomes of the closure.
RECURSIVE position(_, _)
position(hits, i) ==
    IF hits = <<>> THEN None
    ELSE IF Head(hits) THEN Some(i)
    ELSE position(Tail(hits), i + 1)

(***************************************************************************)
(* assembly.rs: the four primitives                                        *)
(***************************************************************************)
\* The default arm written like the one of rep_cmps: `len`, not `len * size`.
rep_movs_x86_len(t, src, dst, len, m) ==
    LET size == size_of(t)
    IN  CASE size = 8 -> asm_rep_movs(8, len, src, dst, m).mem
          [] size = 4 -> asm_rep_movs(4, len, src, dst, m).mem
          [] size = 2 -> asm_rep_movs(2, len, src, dst, m).mem
          [] OTHER -> asm_rep_movs(1, len, src, dst, m).mem

\* The `match size` of rep_movs: the instruction's width in bytes and the
\* count loaded into rcx.
rep_movs_arm(size, len) ==
    CASE size = 8 -> [insn |-> "rep movsq", w |-> 8, rcx |-> len]
      [] size = 4 -> [insn |-> "rep movsd", w |-> 4, rcx |-> len]
      [] size = 2 -> [insn |-> "rep movsw", w |-> 2, rcx |-> len]
      [] OTHER -> [insn |-> "rep movsb", w |-> 1, rcx |-> len * size]

\* The asm! block of rep_movs: the registers and memory it leaves.
rep_movs_asm(t, src, dst, len, m) ==
    LET arm == rep_movs_arm(size_of(t), len)
    IN  asm_rep_movs(arm.w, arm.rcx, src, dst, m)

rep_movs_x86(t, src, dst, len, m) == rep_movs_asm(t, src, dst, len, m).mem

\* core::ptr::copy_nonoverlapping(src, dst, len)
copy_nonoverlapping(t, src, dst, len, m) ==
    Store(m, dst, Load(m, src, len * size_of(t)))

rep_movs(tgt, t, src, dst, len, m) ==
    IF tgt
    THEN rep_movs_x86(t, src, dst, len, m)
    ELSE copy_nonoverlapping(t, src, dst, len, m)

\* The `match size` of rep_stos.
rep_stos_arm(size, len) ==
    CASE size = 8 -> [insn |-> "rep stosq", w |-> 8, rcx |-> len]
      [] size = 4 -> [insn |-> "rep stosd", w |-> 4, rcx |-> len]
      [] size = 2 -> [insn |-> "rep stosw", w |-> 2, rcx |-> len]
      [] OTHER -> [insn |-> "rep stosb", w |-> 1, rcx |-> len * size]

\* The asm! block of rep_stos: src is transmuted to the integer of the
\* instruction's width and loaded into rax / eax / ax / al.
rep_stos_asm(t, src, dst, len, m) ==
    LET arm == rep_stos_arm(size_of(t), len)
    IN  asm_rep_stos(arm.w, arm.rcx, transmute_copy(src, arm.w), dst, m)

rep_stos_x86(t, src, dst, len, m) == rep_stos_asm(t, src, dst, len, m).mem

\* core::slice::from_raw_parts_mut(dst, len).fill(src)
slice_fill(t, src, dst, len, m) ==
    Store(m, dst, Flatten([i \in 1..len |-> src]))

rep_stos(tgt, t, src, dst, len, m) ==
    IF tgt
    THEN rep_stos_x86(t, src, dst, len, m)
    ELSE slice_fill(t, src, dst, len, m)

\* The `match size` of rep_cmps.
rep_cmps_arm(size, len) ==
    CASE size = 8 -> [insn |-> "repe cmpsq", w |-> 8, rcx |-> len]
      [] size = 4 -> [insn |-> "repe cmpsd", w |-> 4, rcx |-> len]
      [] size = 2 -> [insn |-> "repe cmpsw", w |-> 2, rcx |-> len]
      [] OTHER -> [insn |-> "repe cmpsb", w |-> 1, rcx |-> len]

\* The asm! block of rep_cmps, entered with the zero flag at zf: test,
\* repe cmps with rdi = a and rsi = b, sete.  p is rdi on exit.
rep_cmps_asm(t, a, b, len, m, zf) ==
    LET arm == rep_cmps_arm(size_of(t), len)
        r == asm_repe_cmps(arm.w, asm_test(zf, arm.rcx), arm.rcx, b, a, m)
    IN  [eq |-> asm_sete(r.zf), p |-> r.rdi, rsi |-> r.rsi, rcx |-> r.rcx]

\* The outcomes of rep_cmps on x86_64, entered with the zero flag at zf.
rep_cmps_x86(t, a, b, len, m, zf) ==
    LET r == rep_cmps_asm(t, a, b, len, m, zf)
    IN  IF r.eq % 2 = 0
        THEN sub_one(offset_from(r.p, a, size_of(t)))
        ELSE {None}

rep_cmps_fallback(t, a, b, len, m) ==
    position([i \in 1..len |->
                 ~bitwise_eq(t, Elem(m, a, size_of(t), i - 1), Elem(m, b, size_of(t), i - 1))],
             0)

rep_cmps(tgt, t, a, b, len, m, zf) ==
    IF tgt
    THEN rep_cmps_x86(t, a, b, len, m, zf)
    ELSE {rep_cmps_fallback(t, a, b, len, m)}

\* The `match size` of rep_scas.
rep_scas_arm(size, len) ==
    CASE size = 8 -> [insn |-> "repne scasq", w |-> 8, rcx |-> len]
      [] size = 4 -> [insn |-> "repne scasd", w |-> 4, rcx |-> len]
      [] size = 2 -> [insn |-> "repne scasw", w |-> 2, rcx |-> len]
      [] OTHER -> [insn |-> "repne scasb", w |-> 1, rcx |-> len]

\* The asm! block of rep_scas, entered with the zero flag at zf: test,
\* repne scas with rdi = src, sete.  p is rdi on exit.
rep_scas_asm(t, src, value, len, m, zf) ==
    LET arm == rep_scas_arm(size_of(t), len)
        r == asm_repne_scas(arm.w, asm_test(zf, src), arm.rcx,
                            transmute_copy(value, arm.w), src, m)
    IN  [eq |-> asm_sete(r.zf), p |-> r.rdi, rcx |-> r.rcx]

\* The outcomes of rep_scas on x86_64, entered with the zero flag at zf.
rep_scas_x86(t, src, value, len, m, zf) ==
    LET r == rep_scas_asm(t, src, value, len, m, zf)
    IN  IF r.eq % 2 # 0
        THEN sub_one(offset_from(r.p, src, size_of(t)))
        ELSE {None}

rep_scas_fallback(t, src, value, len, m) ==
    position([i \in 1..len |-> bitwise_eq(t, Elem(m, src, size_of(t), i - 1), value)], 0)

rep_scas(tgt, t, src, value, len, m, zf) ==
    IF tgt
    THEN rep_scas_x86(t, src, value, len, m, zf)
    ELSE {rep_scas_fallback(t, src, value, len, m)}

(***************************************************************************)
(* slice.rs: SliceExt for [T]                                              *)
(***************************************************************************)
\* The zero flag a call may be entered with: anything on x86_64.
Flags == IF target THEN BOOLEAN ELSE {FALSE}

Init ==
    /\ T \in CopyType
    /\ target \in BOOLEAN
    /\ \E la \in 0..MaxLen, lb \in 0..MaxLen :
         /\ self = [ptr |-> size_of(T), len |-> la]
         /\ other = [ptr |-> size_of(T) * (la + 2), len |-> lb]
         /\ \E ea \in [1..la -> Samples(T)], eb \in [1..lb -> Samples(T)] :
              mem = Guard(size_of(T)) \o Flatten(ea) \o Guard(size_of(T))
                      \o Flatten(eb) \o Guard(size_of(T))
    /\ op = [name |-> "none"]
    /\ ret = Unit
    /\ lastWrite = [name |-> "none"]

inline_fill(value) ==
    /\ T \in TypeBound("SliceExt")
    /\ mem' = rep_stos(target, T, value, self.ptr, self.len, mem)
    /\ op' = [name |-> "inline_fill", value |-> value]
    /\ ret' = Unit
    /\ lastWrite' = [name |-> "inline_fill", value |-> value]
    /\ UNCHANGED <<T, target, self, other>>

inline_position(value, zf) ==
    /\ T \in TypeBound("SliceExt")
    /\ ret' \in rep_scas(target, T, self.ptr, value, self.len, mem, zf)
    /\ op' = [name |-> "inline_position", value |-> value, zf |-> zf]
    /\ UNCHANGED <<T, target, mem, self, other, lastWrite>>

\* assert_eq!(len, other.len()) written as len <= other.len().
inline_copy_from_le ==
    LET len == self.len
    IN  /\ T \in TypeBound("SliceExt")
        /\ op' = [name |-> "inline_copy_from"]
        /\ IF len <= other.len
           THEN /\ mem' = rep_movs(target, T, other.ptr, self.ptr, len, mem)
                /\ ret' = Unit
                /\ lastWrite' = [name |-> "inline_copy_from"]
           ELSE /\ ret' = Panic("length mismatch")
                /\ UNCHANGED <<mem, lastWrite>>
        /\ UNCHANGED <<T, target, self, other>>

inline_copy_from ==
    LET len == self.len
    IN  /\ T \in TypeBound("SliceExt")
        /\ op' = [name |-> "inline_copy_from"]
        /\ IF len = other.len
           THEN /\ mem' = rep_movs(target, T, other.ptr, self.ptr, len, mem)
                /\ ret' = Unit
                /\ lastWrite' = [name |-> "inline_copy_from"]
           ELSE /\ ret' = Panic("length mismatch")
                /\ UNCHANGED <<mem, lastWrite>>
        /\ UNCHANGED <<T, target, self, other>>

inline_mismatch(zf) ==
    LET len == self.len
    IN  /\ T \in TypeBound("SliceExt")
        /\ op' = [name |-> "inline_mismatch", zf |-> zf]
        /\ IF len = other.len
           THEN ret' \in rep_cmps(target, T, self.ptr, other.ptr, len, mem, zf)
           ELSE ret' = Panic("length mismatch")
        /\ UNCHANGED <<T, target, mem, self, other, lastWrite>>

(***************************************************************************)
(* Direct calls of the primitives: `unsafe { rep_movs(src, dst, len) }`    *)
(* and `unsafe { rep_stos(value, dst, len) }`, with self as dst and other  *)
(* as src, and a len both regions are valid for.                           *)
(***************************************************************************)
\* Direct calls are followed for the element types SliceExt does not take;
\* for the register types SliceExt makes the same calls.
DirectCallType == CopyType \ TypeBound("SliceExt")

ValidLens == 0..(IF self.len <= other.len THEN self.len ELSE other.len)

unsafe_rep_movs(len) ==
    /\ T \in TypeBound("rep_movs") \cap DirectCallType
    /\ mem' = rep_movs(target, T, other.ptr, self.ptr, len, mem)
    /\ op' = [name |-> "rep_movs", len |-> len]
    /\ ret' = Unit
    /\ lastWrite' = [name |-> "rep_movs", len |-> len]
    /\ UNCHANGED <<T, target, self, other>>

unsafe_rep_stos(value, len) ==
    /\ T \in TypeBound("rep_stos") \cap DirectCallType
    /\ mem' = rep_stos(target, T, value, self.ptr, len, mem)
    /\ op' = [name |-> "rep_stos", value |-> value, len |-> len]
    /\ ret' = Unit
    /\ lastWrite' = [name |-> "rep_stos", value |-> value, len |-> len]
    /\ UNCHANGED <<T, target, self, other>>

Next ==
    \/ \E value \in Samples(T) : inline_fill(value)
    \/ \E value \in Samples(T), zf \in Flags : inline_position(value, zf)
    \/ inline_copy_from
    \/ \E zf \in Flags : inline_mismatch(zf)
    \/ \E len \in ValidLens : unsafe_rep_movs(len)
    \/ \E value \in Samples(T), len \in 0..self.len : unsafe_rep_stos(value, len)

Spec == Init /\ [][Next]_vars

(***************************************************************************)
(* Properties                                                              *)
(***************************************************************************)
SelfElem(i) == Elem(mem, self.ptr, size_of(T), i)
OtherElem(i) == Elem(mem, other.ptr, size_of(T), i)

\* Some(least member of D), None when D is empty.
First(D) == IF D = {} THEN None ELSE Some(CHOOSE k \in D : \A j \in D : k <= j)

ExpectedMismatch == First({i \in 0..(self.len - 1) : SelfElem(i) # OtherElem(i)})
ExpectedPosition(needle) == First({i \in 0..(self.len - 1) : SelfElem(i) = needle})

\* C1: a completed inline_mismatch returns Some(k) for the first index k at
\* which the two slices differ bit for bit, and None when they are equal.
C1_CompareFirstMismatch ==
    (op.name = "inline_mismatch" /\ self.len = other.len) => ret = ExpectedMismatch

\* C2: inline_position returns Some(i1) for the first index i1 holding the
\* needle's bit pattern, and None when no element holds it.
C2_ScanFirstOccurrence ==
    op.name = "inline_position" => ret = ExpectedPosition(op.value)

\* C3: after inline_fill(v) every element of the slice holds all bytes of v.
C3_FillWritesValue ==
    op.name = "inline_fill" => \A i \in 0..(self.len - 1) : SelfElem(i) = op.value

\* C4: after inline_copy_from with equal lengths, destination element i
\* equals source element i bit for bit, for every i.
C4_CopyReproducesSource ==
    (op.name = "inline_copy_from" /\ self.len = other.len)
        => \A i \in 0..(self.len - 1) : SelfElem(i) = OtherElem(i)

C4_Witness ==
    /\ op.name = "inline_copy_from"
    /\ ret = Unit
    /\ target
    /\ size_of(T) = 16
    /\ self.len = 2
    /\ OtherElem(0) = Top(16)
    /\ OtherElem(1) = One(16)
    /\ SelfElem(0) = Top(16)
    /\ SelfElem(1) = One(16)

\* C5: inline_copy_from and inline_mismatch called with slices of different
\* lengths panic with "length mismatch", change no byte of memory and
\* return no index.
C5_LengthMismatchRejected ==
    [][(op'.name \in {"inline_copy_from", "inline_mismatch"} /\ self.len # other.len)
          => (ret' = Panic("length mismatch") /\ mem' = mem)]_vars

C5_Witness ==
    /\ op.name = "inline_copy_from"
    /\ self.len = 1
    /\ other.len = 2
    /\ ret = Panic("length mismatch")
    /\ SelfElem(0) # OtherElem(0)

\* C6: on every input the x86_64 path and the fallback path of each of the
\* four operations give the same memory and the same returned index.
C6_PathsAgree ==
    \A v \in Samples(T), zf \in BOOLEAN :
        /\ rep_stos_x86(T, v, self.ptr, self.len, mem)
             = slice_fill(T, v, self.ptr, self.len, mem)
        /\ rep_scas_x86(T, self.ptr, v, self.len, mem, zf)
             = {rep_scas_fallback(T, self.ptr, v, self.len, mem)}
        /\ self.len = other.len =>
             /\ rep_movs_x86(T, other.ptr, self.ptr, self.len, mem)
                  = copy_nonoverlapping(T, other.ptr, self.ptr, self.len, mem)
             /\ rep_cmps_x86(T, self.ptr, other.ptr, self.len, mem, zf)
                  = {rep_cmps_fallback(T, self.ptr, other.ptr, self.len, mem)}

\* C7: compare and scan of an empty region return None; on x86_64 the flag
\* read by sete is then the one the test instruction set, whatever the zero
\* flag was on entry.
C7_EmptyIsNone ==
    /\ (op.name = "inline_position" /\ self.len = 0) => ret = None
    /\ (op.name = "inline_mismatch" /\ self.len = 0 /\ other.len = 0) => ret = None
    /\ \A zf \in BOOLEAN :
         /\ rep_cmps_x86(T, self.ptr, other.ptr, 0, mem, zf) = {None}
         /\ \A v \in Samples(T) : rep_scas_x86(T, self.ptr, v, 0, mem, zf) = {None}

C7_Witness ==
    /\ op.name = "inline_position"
    /\ target
    /\ self.len = 0
    /\ op.zf = TRUE
    /\ ret = None

\* C8: on f32 and f64 slices that agree bit for bit before index k,
\* +0.0 against -0.0 at k is reported as the mismatch Some(k), and the same
\* NaN bit pattern on both sides at k is not reported as a mismatch.
C8_FloatBitPattern ==
    (IsFloat(T) /\ op.name = "inline_mismatch" /\ self.len = other.len) =>
        \A k \in 0..(self.len - 1) :
            (\A j \in 0..(k - 1) : SelfElem(j) = OtherElem(j)) =>
                /\ (/\ IsFloatZero(SelfElem(k))
                    /\ IsFloatZero(OtherElem(k))
                    /\ SelfElem(k) # OtherElem(k)) => ret = Some(k)
                /\ (IsNaN(SelfElem(k)) /\ SelfElem(k) = OtherElem(k)) => ret # Some(k)

C8_Witness ==
    /\ IsFloat(T)
    /\ ~target
    /\ op.name = "inline_mismatch"
    /\ self.len = 2
    /\ other.len = 2
    /\ IsNaN(SelfElem(0))
    /\ SelfElem(0) = OtherElem(0)
    /\ SelfElem(1) = Zero(size_of(T))
    /\ OtherElem(1) = Top(size_of(T))
    /\ ret = Some(1)

\* C9: inline_mismatch of the destination against the source returns None
\* when the last write to memory was inline_copy_from between the two.
C9_CopyThenCompare ==
    (op.name = "inline_mismatch" /\ lastWrite.name = "inline_copy_from") => ret = None

C9_Witness ==
    /\ op.name = "inline_mismatch"
    /\ lastWrite.name = "inline_copy_from"
    /\ target
    /\ size_of(T) = 16
    /\ self.len = 2
    /\ OtherElem(0) # OtherElem(1)
    /\ ret = None

\* C10: inline_position(v) on a slice whose last write was inline_fill(v)
\* returns Some(0) when the slice is not empty and None when it is.
C10_FillThenScan ==
    (/\ op.name = "inline_position"
     /\ lastWrite.name = "inline_fill"
     /\ lastWrite.value = op.value)
        => ret = (IF self.len > 0 THEN Some(0) ELSE None)

\* The primitive a call goes to, and the element count it is given.
Primitive(o) ==
    CASE o.name \in {"inline_copy_from", "rep_movs"} -> "rep_movs"
      [] o.name \in {"inline_fill", "rep_stos"} -> "rep_stos"
      [] o.name = "inline_mismatch" -> "rep_cmps"
      [] o.name = "inline_position" -> "rep_scas"

CallLen(o) == IF o.name \in {"rep_movs", "rep_stos"} THEN o.len ELSE self.len

\* The last call reached its primitive: there was one and it passed the
\* length assertion.
ReachedPrimitive == op.name # "none" /\ ret # Panic("length mismatch")

DispatchArm(f, size, len) ==
    CASE f = "rep_movs" -> rep_movs_arm(size, len)
      [] f = "rep_stos" -> rep_stos_arm(size, len)
      [] f = "rep_cmps" -> rep_cmps_arm(size, len)
      [] f = "rep_scas" -> rep_scas_arm(size, len)

\* C11: whenever a primitive runs, its element type is a register type, the
\* width it dispatches on is 1, 2, 4, 8 or 16, and the default arm (the
\* byte instruction) is taken only by widths 1 and 16.
C11_SealedDispatch ==
    ReachedPrimitive =>
        /\ T \in RegisterType
        /\ size_of(T) \in {1, 2, 4, 8, 16}
        /\ DispatchArm(Primitive(op), size_of(T), CallLen(op)).w = 1
             => size_of(T) \in {1, 16}

\* C12: on x86_64, for a register type of width w and a count n, the count
\* loaded into rcx times the width of the selected instruction is n * w.
C12_DispatchCoversRegion ==
    (ReachedPrimitive /\ target /\ T \in RegisterType) =>
        LET arm == DispatchArm(Primitive(op), size_of(T), CallLen(op))
        IN  arm.rcx * arm.w = CallLen(op) * size_of(T)

\* C13: a step that is a compare or a scan leaves memory as it was; a step
\* that is a copy or a fill of n elements changes no byte outside the n
\* destination elements (so the source keeps its bytes); and on x86_64 no
\* byte outside the regions is accessed: rep movs and rep stos run over
\* rcx times their width, at most n elements, and the cursors of repe cmps
\* and repne scas end no further than n elements past where they started.
C13_Frame ==
    [][LET n == IF ret' = Panic("length mismatch") THEN 0 ELSE CallLen(op')
           bytes == n * size_of(T)
       IN  /\ op'.name \in {"inline_mismatch", "inline_position"} => mem' = mem
           /\ op'.name \in {"inline_fill", "rep_stos", "inline_copy_from", "rep_movs"} =>
                /\ Len(mem') = Len(mem)
                /\ Load(mem', 0, self.ptr) = Load(mem, 0, self.ptr)
                /\ Load(mem', self.ptr + bytes, Len(mem) - self.ptr - bytes)
                     = Load(mem, self.ptr + bytes, Len(mem) - self.ptr - bytes)
           /\ (target /\ op'.name \in {"inline_copy_from", "rep_movs"}) =>
                LET arm == rep_movs_arm(size_of(T), n)
                IN  arm.rcx * arm.w <= bytes
           /\ (target /\ op'.name \in {"inline_fill", "rep_stos"}) =>
                LET arm == rep_stos_arm(size_of(T), n)
                IN  arm.rcx * arm.w <= bytes
           /\ (target /\ op'.name = "inline_mismatch") =>
                LET r == rep_cmps_asm(T, self.ptr, other.ptr, n, mem, op'.zf)
                IN  r.p <= self.ptr + bytes /\ r.rsi <= other.ptr + bytes
           /\ (target /\ op'.name = "inline_position") =>
                rep_scas_asm(T, self.ptr, op'.value, n, mem, op'.zf).p
                    <= self.ptr + bytes
      ]_vars

C13_Witness ==
    /\ op.name = "inline_fill"
    /\ target
    /\ size_of(T) = 16
    /\ self.len = 1
    /\ other.len = 2
    /\ op.value = One(16)
    /\ SelfElem(0) # Zero(16)
    /\ OtherElem(0) = Top(16)
    /\ OtherElem(1) = One(16)
    /\ Load(mem, 0, 16) = Guard(16)
    /\ Load(mem, self.ptr + 16, 16) = Guard(16)

\* C14: whenever inline_mismatch or inline_position recovers an index, the
\* subtraction has not underflowed and the result is Some(i) with
\* 0 <= i < n; on x86_64 the cursor is then a whole number e of elements
\* past the start pointer, with 1 <= e <= n.
C14_CursorInBounds ==
    (/\ op.name \in {"inline_mismatch", "inline_position"}
     /\ ret # None
     /\ ret # Panic("length mismatch")) =>
        /\ ret.tag = "Some"
        /\ 0 <= ret.idx
        /\ ret.idx < self.len
        /\ target =>
             LET p == IF op.name = "inline_mismatch"
                      THEN rep_cmps_asm(T, self.ptr, other.ptr, self.len, mem, op.zf).p
                      ELSE rep_scas_asm(T, self.ptr, op.value, self.len, mem, op.zf).p
                 adv == p - self.ptr
             IN  /\ adv % size_of(T) = 0
                 /\ 1 <= adv \div size_of(T)
                 /\ adv \div size_of(T) <= self.len

====
